---------------------------- MODULE Spec2Model ----------------------------
(***************************************************************************)
(* Model of the wbuf crate (src/src/lib.rs): the three wrapper enums       *)
(* Input, Output and InputOutput over stdin/stdout, an in-memory           *)
(* Cursor<Vec<u8>> and a file, their constructors, from_arg, and the       *)
(* Read / Write implementations.                                           *)
(*                                                                         *)
(* The platform the crate calls into is modelled by what it does: a flat   *)
(* file system (path -> file with bytes and permission bits), a table of   *)
(* open descriptors (0 = stdin, 1 = stdout, the rest files), the bytes     *)
(* waiting on stdin and the bytes written to stdout.  Every method is an   *)
(* operator from (self, arguments, world) to the SET of its possible       *)
(* outcomes: a platform call may transfer fewer bytes than asked or fail.  *)
(***************************************************************************)
EXTENDS Integers, Sequences, FiniteSets, TLC

VARIABLES inst, fs, handles, stdin, stdout, outOpened, last

vars == <<inst, fs, handles, stdin, stdout, outOpened, last>>

---------------------------------------------------------------------------
(* Bounds of the model *)

\* longest byte sequence held by a cursor or a file
MaxLen == 3
\* most bytes written to stdout
MaxOut == 2
\* largest capacity of a buffer handed to read
MaxCap == 2

Ids == {1, 2}
One == {1}
Bytes == {1, 2, 3}
Caps == 0 .. MaxCap

Min(a, b) == IF a < b THEN a ELSE b
Max(a, b) == IF a > b THEN a ELSE b

Take(s, n) == SubSeq(s, 1, n)
DropN(s, n) == SubSeq(s, n + 1, Len(s))

IsPrefix(s, t) == Len(s) <= Len(t) /\ Take(t, Len(s)) = s

SeqsUpTo(n) == UNION {[1 .. k -> Bytes] : k \in 0 .. n}

\* the buffers the callers write, and the vectors a cursor is pre-loaded with
WriteBufs == {<<>>, <<1>>, <<2, 3>>, <<1, 2, 3>>}
SmallBufs == {<<>>, <<3>>}

---------------------------------------------------------------------------
(* Arguments: Option<&str> *)

NoneArg == [some |-> FALSE, s |-> ""]
Some(s) == [some |-> TRUE, s |-> s]

\* "" names nothing and cannot be created; "-" and "ro" lie in a directory
\* that is not writable, "a" in one that is
Paths == {"", "-", "a", "ro"}
FilePaths == Paths \ {""}
Args == {NoneArg} \cup {Some(p) : p \in Paths}

DirWritable(p) == p = "a"

---------------------------------------------------------------------------
(* The platform *)

NoFile == [exists |-> FALSE, data |-> <<>>, r |-> FALSE, w |-> FALSE]
NewFile == [exists |-> TRUE, data |-> <<>>, r |-> TRUE, w |-> TRUE]

StdinFd == 0
StdoutFd == 1
StdFds == {StdinFd, StdoutFd}

StdHandle(rd) == [path |-> "", pos |-> 0, rd |-> rd, wr |-> ~rd]

World == [fs |-> fs, handles |-> handles, stdin |-> stdin, stdout |-> stdout]

\* the lowest descriptor that is not open
NewFd(h) ==
    CHOOSE n \in 2 .. (Cardinality(DOMAIN h) + 2) :
        n \notin DOMAIN h /\ \A m \in 2 .. (n - 1) : m \in DOMAIN h

CloseFd(h, fd) == [f \in (DOMAIN h) \ {fd} |-> h[f]]

\* bytes of data with buf written at offset pos (a gap is filled with zeros)
WriteAt(data, pos, buf) ==
    LET padded == IF pos > Len(data)
                  THEN data \o [k \in 1 .. (pos - Len(data)) |-> 0]
                  ELSE data
        newlen == Max(Len(padded), pos + Len(buf))
    IN [k \in 1 .. newlen |->
            IF k > pos /\ k <= pos + Len(buf) THEN buf[k - pos] ELSE padded[k]]

\* the counts a platform transfer of at most m bytes may report
Partial(m) == IF m = 0 THEN {0} ELSE 1 .. m

(* fs::OpenOptions::new().read(rd).write(wr).create(cr).open(path):
   [ok, err, w, fd].  No option asks for truncation. *)
OpenOptionsOpen(path, rd, wr, cr, w) ==
    LET f == IF path \in FilePaths THEN w.fs[path] ELSE NoFile
        fail(e) == [ok |-> FALSE, err |-> e, w |-> w, fd |-> 0]
        opened(fsys) ==
            LET fd == NewFd(w.handles)
            IN [ok |-> TRUE, err |-> "",
                w |-> [w EXCEPT !.fs = fsys,
                                !.handles = fd :> [path |-> path, pos |-> 0,
                                                   rd |-> rd, wr |-> wr]
                                            @@ w.handles],
                fd |-> fd]
    IN IF path \notin FilePaths THEN fail("NotFound")
       ELSE IF ~f.exists
            THEN IF ~cr THEN fail("NotFound")
                 ELSE IF ~DirWritable(path) THEN fail("PermissionDenied")
                 ELSE opened([w.fs EXCEPT ![path] = NewFile])
       ELSE IF (rd /\ ~f.r) \/ (wr /\ ~f.w) THEN fail("PermissionDenied")
       ELSE opened(w.fs)

---------------------------------------------------------------------------
(* io::Cursor<Vec<u8>> *)

EmptyCursor == [data |-> <<>>, pos |-> 0]
CursorNew(v) == [data |-> v, pos |-> 0]

\* a read that does not advance the position
CursorReadNoAdvance(cur, cap) ==
    LET start == Min(cur.pos, Len(cur.data))
        n == Min(cap, Len(cur.data) - start)
    IN [cur |-> cur, n |-> n, out |-> SubSeq(cur.data, start + 1, start + n)]

CursorRead(cur, cap) ==
    LET start == Min(cur.pos, Len(cur.data))
        n == Min(cap, Len(cur.data) - start)
    IN [cur |-> [cur EXCEPT !.pos = @ + n], n |-> n,
        out |-> SubSeq(cur.data, start + 1, start + n)]

\* a write that keeps its own offset and leaves the read position alone
CursorWriteNoAdvance(cur, buf) ==
    [cur |-> [data |-> WriteAt(cur.data, Len(cur.data), buf), pos |-> cur.pos],
     n |-> Len(buf)]

CursorWrite(cur, buf) ==
    [cur |-> [data |-> WriteAt(cur.data, cur.pos, buf),
              pos |-> cur.pos + Len(buf)],
     n |-> Len(buf)]

\* a flush that rewinds the cursor
CursorFlushRewind(cur) == [cur EXCEPT !.pos = 0]

CursorFlush(cur) == cur

---------------------------------------------------------------------------
(* Instances of the three enums.  variant is the enum's tag; cur is the    *)
(* Memory variant's cursor; sin / sout are the Standard variant's handles; *)
(* file is the File variant's descriptor.  origin, wlog and rlog are       *)
(* history: how the instance was built, the bytes its writes accepted and  *)
(* the bytes its reads returned.                                           *)

NoFd == -1

Dead ==
    [type |-> "none", variant |-> "none", cur |-> EmptyCursor,
     sin |-> NoFd, sout |-> NoFd, file |-> NoFd,
     origin |-> "none", wlog |-> <<>>, rlog |-> <<>>]

Standard(type, i, o) == [Dead EXCEPT !.type = type, !.variant = "Standard",
                                     !.sin = i, !.sout = o]
Memory(type, cur) == [Dead EXCEPT !.type = type, !.variant = "Memory",
                                  !.cur = cur]
File(type, fd) == [Dead EXCEPT !.type = type, !.variant = "File", !.file = fd]

\* outcomes of a method: the instance and the world after it, and its result
Ok(self, w, n, out) ==
    [self |-> self, w |-> w, ok |-> TRUE, err |-> "", n |-> n, out |-> out]
Err(self, w, e) ==
    [self |-> self, w |-> w, ok |-> FALSE, err |-> e, n |-> 0, out |-> <<>>]

\* io::Result<Self> of a file constructor: map(Variant) over the open result
MapOpen(type, o, w) ==
    IF o.ok THEN Ok(File(type, o.fd), o.w, 0, <<>>) ELSE Err(Dead, w, o.err)

---------------------------------------------------------------------------
(* Reads, writes and flushes of the platform's streams and files *)

StdinRead(self, fd, cap, w) ==
    IF fd \notin DOMAIN w.handles \/ fd # StdinFd
    THEN {Err(self, w, "Other")}
    ELSE {Ok(self, [w EXCEPT !.stdin = DropN(@, n)], n, Take(w.stdin, n)) :
              n \in Partial(Min(cap, Len(w.stdin)))}
         \cup {Err(self, w, "Interrupted")}

StdoutWrite(self, fd, buf, w) ==
    IF fd \notin DOMAIN w.handles \/ fd # StdoutFd
    THEN {Err(self, w, "Other")}
    ELSE {Ok(self, [w EXCEPT !.stdout.pending = @ \o Take(buf, n)], n, <<>>) :
              n \in Partial(Len(buf))}
         \cup {Err(self, w, "Interrupted")}

StdoutFlush(self, fd, w) ==
    IF fd \notin DOMAIN w.handles \/ fd # StdoutFd
    THEN {Err(self, w, "Other")}
    ELSE {Ok(self, [w EXCEPT !.stdout = [pending |-> <<>>,
                                          committed |-> @.committed \o @.pending]],
             0, <<>>),
          Err(self, w, "Interrupted")}

FileRead(self, fd, cap, w) ==
    IF fd \notin DOMAIN w.handles \/ ~w.handles[fd].rd
    THEN {Err(self, w, "Other")}
    ELSE LET h == w.handles[fd]
             data == w.fs[h.path].data
             start == Min(h.pos, Len(data))
         IN {Ok(self, [w EXCEPT !.handles[fd].pos = @ + n], n,
                SubSeq(data, start + 1, start + n)) :
                 n \in Partial(Min(cap, Len(data) - start))}
            \cup {Err(self, w, "Interrupted")}

FileWrite(self, fd, buf, w) ==
    IF fd \notin DOMAIN w.handles \/ ~w.handles[fd].wr
    THEN {Err(self, w, "Other")}
    ELSE LET h == w.handles[fd]
         IN {Ok(self, [w EXCEPT !.fs[h.path].data = WriteAt(@, h.pos, Take(buf, n)),
                                !.handles[fd].pos = @ + n], n, <<>>) :
                 n \in Partial(Len(buf))}
            \cup {Err(self, w, "Interrupted")}

FileFlush(self, fd, w) ==
    IF fd \notin DOMAIN w.handles THEN {Err(self, w, "Other")}
    ELSE {Ok(self, w, 0, <<>>)}

---------------------------------------------------------------------------
(* impl Input *)

InputStdin(w) == Ok(Standard("Input", StdinFd, NoFd), w, 0, <<>>)

InputMemory(w) == Ok(Memory("Input", CursorNew(<<>>)), w, 0, <<>>)

InputFile(path, w) ==
    MapOpen("Input", OpenOptionsOpen(path, TRUE, FALSE, FALSE, w), w)

\* from_arg that also takes the empty string for the standard stream
InputFromArgEmpty(arg, w) ==
    IF ~arg.some \/ arg.s = "-" \/ arg.s = "" THEN InputStdin(w)
    ELSE InputFile(arg.s, w)

InputFromArg(arg, w) ==
    IF ~arg.some \/ arg.s = "-" THEN InputStdin(w) ELSE InputFile(arg.s, w)

\* a read that falls back to stdin when the file read fails
InputReadFallback(self, cap, w) ==
    CASE self.variant = "Standard" -> StdinRead(self, self.sin, cap, w)
      [] self.variant = "Memory" ->
            LET r == CursorRead(self.cur, cap)
            IN {Ok([self EXCEPT !.cur = r.cur], w, r.n, r.out)}
      [] self.variant = "File" ->
            {IF o.ok THEN o
             ELSE [o EXCEPT !.self = [self EXCEPT !.variant = "Standard",
                                                  !.sin = StdinFd]] :
                 o \in FileRead(self, self.file, cap, w)}

InputRead(self, cap, w) ==
    CASE self.variant = "Standard" -> StdinRead(self, self.sin, cap, w)
      [] self.variant = "Memory" ->
            LET r == CursorRead(self.cur, cap)
            IN {Ok([self EXCEPT !.cur = r.cur], w, r.n, r.out)}
      [] self.variant = "File" -> FileRead(self, self.file, cap, w)

---------------------------------------------------------------------------
(* impl Output *)

OutputStdout(w) == Ok(Standard("Output", NoFd, StdoutFd), w, 0, <<>>)

OutputMemory(w) == Ok(Memory("Output", CursorNew(<<>>)), w, 0, <<>>)

OutputFile(path, w) ==
    MapOpen("Output", OpenOptionsOpen(path, FALSE, TRUE, TRUE, w), w)

OutputFromArg(arg, w) ==
    IF ~arg.some \/ arg.s = "-" THEN OutputStdout(w) ELSE OutputFile(arg.s, w)

OutputWrite(self, buf, w) ==
    CASE self.variant = "Standard" -> StdoutWrite(self, self.sout, buf, w)
      [] self.variant = "Memory" ->
            LET r == CursorWrite(self.cur, buf)
            IN {Ok([self EXCEPT !.cur = r.cur], w, r.n, <<>>)}
      [] self.variant = "File" -> FileWrite(self, self.file, buf, w)

OutputFlush(self, w) ==
    CASE self.variant = "Standard" -> StdoutFlush(self, self.sout, w)
      [] self.variant = "Memory" ->
            {Ok([self EXCEPT !.cur = CursorFlush(@)], w, 0, <<>>)}
      [] self.variant = "File" -> FileFlush(self, self.file, w)

---------------------------------------------------------------------------
(* impl InputOutput *)

InputOutputStdio(w) ==
    Ok(Standard("InputOutput", StdinFd, StdoutFd), w, 0, <<>>)

InputOutputMemory(w) == Ok(Memory("InputOutput", CursorNew(<<>>)), w, 0, <<>>)

\* the file constructor with create(true), as Output::file has it
InputOutputFileCreate(path, w) ==
    MapOpen("InputOutput", OpenOptionsOpen(path, TRUE, TRUE, TRUE, w), w)

InputOutputFile(path, w) ==
    MapOpen("InputOutput", OpenOptionsOpen(path, TRUE, TRUE, FALSE, w), w)

InputOutputFromArg(arg, w) ==
    IF ~arg.some \/ arg.s = "-" THEN InputOutputStdio(w)
    ELSE InputOutputFile(arg.s, w)

\* a Memory read that hands over all that remains, whatever the capacity
InputOutputReadAll(self, cap, w) ==
    CASE self.variant = "Standard" -> StdinRead(self, self.sin, cap, w)
      [] self.variant = "Memory" ->
            LET r == CursorRead(self.cur, Len(self.cur.data))
            IN {Ok([self EXCEPT !.cur = r.cur], w, r.n, r.out)}
      [] self.variant = "File" -> FileRead(self, self.file, cap, w)

\* a Standard read that first flushes the held stdout
InputOutputReadFlushing(self, cap, w) ==
    CASE self.variant = "Standard" ->
            UNION {StdinRead(self, self.sin, cap, f.w) :
                       f \in StdoutFlush(self, self.sout, w)}
      [] self.variant = "Memory" ->
            LET r == CursorRead(self.cur, cap)
            IN {Ok([self EXCEPT !.cur = r.cur], w, r.n, r.out)}
      [] self.variant = "File" -> FileRead(self, self.file, cap, w)

InputOutputRead(self, cap, w) ==
    CASE self.variant = "Standard" -> StdinRead(self, self.sin, cap, w)
      [] self.variant = "Memory" ->
            LET r == CursorRead(self.cur, cap)
            IN {Ok([self EXCEPT !.cur = r.cur], w, r.n, r.out)}
      [] self.variant = "File" -> FileRead(self, self.file, cap, w)

InputOutputWrite(self, buf, w) ==
    CASE self.variant = "Standard" -> StdoutWrite(self, self.sout, buf, w)
      [] self.variant = "Memory" ->
            LET r == CursorWrite(self.cur, buf)
            IN {Ok([self EXCEPT !.cur = r.cur], w, r.n, <<>>)}
      [] self.variant = "File" -> FileWrite(self, self.file, buf, w)

InputOutputFlush(self, w) ==
    CASE self.variant = "Standard" -> StdoutFlush(self, self.sout, w)
      [] self.variant = "Memory" ->
            {Ok([self EXCEPT !.cur = CursorFlush(@)], w, 0, <<>>)}
      [] self.variant = "File" -> FileFlush(self, self.file, w)

---------------------------------------------------------------------------
(* Destruction.  The File variant owns its fs::File, whose drop closes the *)
(* descriptor; io::Stdin and io::Stdout are handles to the process-wide    *)
(* streams and close nothing; the Memory variant's Vec is freed.           *)

\* a destructor that leaves the descriptor open
DropInstanceLeak(self, w) == w

DropInstance(self, w) ==
    IF self.variant = "File"
    THEN [w EXCEPT !.handles = CloseFd(@, self.file)]
    ELSE w

---------------------------------------------------------------------------
(* The state machine *)

NoOp ==
    [op |-> "none", id |-> 0, arg |-> NoneArg, cap |-> 0, buf |-> <<>>,
     ok |-> TRUE, err |-> "", n |-> 0, out |-> <<>>]

Call(op, i, arg, cap, buf, o) ==
    [op |-> op, id |-> i, arg |-> arg, cap |-> cap, buf |-> buf,
     ok |-> o.ok, err |-> o.err, n |-> o.n, out |-> o.out]

SetWorld(w) ==
    /\ fs' = w.fs
    /\ handles' = w.handles
    /\ stdin' = w.stdin
    /\ stdout' = w.stdout

\* the model's bound on every byte sequence of a state
Bounded(o) ==
    /\ Len(o.self.cur.data) <= MaxLen
    /\ \A p \in FilePaths : Len(o.w.fs[p].data) <= MaxLen
    /\ Len(o.w.stdout.pending) + Len(o.w.stdout.committed) <= MaxOut

\* a constructor returned o into the free slot i
Construct(op, i, arg, origin, o) ==
    /\ inst[i] = Dead
    /\ inst' = IF o.ok THEN [inst EXCEPT ![i] = [o.self EXCEPT !.origin = origin]]
               ELSE inst
    /\ SetWorld(o.w)
    /\ outOpened' = IF op = "Output::file" /\ o.ok
                    THEN outOpened \cup {arg.s} ELSE outOpened
    /\ last' = Call(op, i, arg, 0, <<>>, o)

\* a method of the live instance i returned o
Apply(op, i, cap, buf, o) ==
    /\ Bounded(o)
    /\ inst' = [inst EXCEPT ![i] =
                   IF o.self.variant = "Memory"
                   THEN [o.self EXCEPT !.wlog = IF op = "write"
                                                THEN @ \o Take(buf, o.n) ELSE @,
                                       !.rlog = @ \o o.out]
                   ELSE o.self]
    /\ SetWorld(o.w)
    /\ UNCHANGED outOpened
    /\ last' = Call(op, i, NoneArg, cap, buf, o)

CallInputStdin(i) == Construct("Input::stdin", i, NoneArg, "ctor", InputStdin(World))

CallInputMemory(i) ==
    Construct("Input::memory", i, NoneArg, "memory", InputMemory(World))

CallInputFile(i, p) ==
    Construct("Input::file", i, Some(p), "ctor", InputFile(p, World))

CallInputFromArg(i, a) ==
    Construct("Input::from_arg", i, a, "ctor", InputFromArg(a, World))

\* Input::Memory(Cursor::new(b)): the variant built over a pre-loaded vector
CallInputPreloaded(i, b) ==
    Construct("Input::Memory", i, NoneArg, "preloaded",
              Ok(Memory("Input", CursorNew(b)), World, 0, <<>>))

CallOutputStdout(i) ==
    Construct("Output::stdout", i, NoneArg, "ctor", OutputStdout(World))

CallOutputMemory(i) ==
    Construct("Output::memory", i, NoneArg, "memory", OutputMemory(World))

CallOutputFile(i, p) ==
    Construct("Output::file", i, Some(p), "ctor", OutputFile(p, World))

CallOutputFromArg(i, a) ==
    Construct("Output::from_arg", i, a, "ctor", OutputFromArg(a, World))

CallInputOutputStdio(i) ==
    Construct("InputOutput::stdio", i, NoneArg, "ctor", InputOutputStdio(World))

CallInputOutputMemory(i) ==
    Construct("InputOutput::memory", i, NoneArg, "memory", InputOutputMemory(World))

CallInputOutputFile(i, p) ==
    Construct("InputOutput::file", i, Some(p), "ctor", InputOutputFile(p, World))

CallInputOutputFromArg(i, a) ==
    Construct("InputOutput::from_arg", i, a, "ctor", InputOutputFromArg(a, World))

\* InputOutput::Memory(Cursor::new(b))
CallInputOutputPreloaded(i, b) ==
    Construct("InputOutput::Memory", i, NoneArg, "preloaded",
              Ok(Memory("InputOutput", CursorNew(b)), World, 0, <<>>))

CallInputRead(i, cap) ==
    /\ inst[i].type = "Input"
    /\ \E o \in InputRead(inst[i], cap, World) : Apply("read", i, cap, <<>>, o)

CallOutputWrite(i, buf) ==
    /\ inst[i].type = "Output"
    /\ \E o \in OutputWrite(inst[i], buf, World) : Apply("write", i, 0, buf, o)

CallOutputFlush(i) ==
    /\ inst[i].type = "Output"
    /\ \E o \in OutputFlush(inst[i], World) : Apply("flush", i, 0, <<>>, o)

CallInputOutputRead(i, cap) ==
    /\ inst[i].type = "InputOutput"
    /\ \E o \in InputOutputRead(inst[i], cap, World) : Apply("read", i, cap, <<>>, o)

CallInputOutputWrite(i, buf) ==
    /\ inst[i].type = "InputOutput"
    /\ \E o \in InputOutputWrite(inst[i], buf, World) : Apply("write", i, 0, buf, o)

CallInputOutputFlush(i) ==
    /\ inst[i].type = "InputOutput"
    /\ \E o \in InputOutputFlush(inst[i], World) : Apply("flush", i, 0, <<>>, o)

\* the instance in slot i goes out of scope
CallDrop(i) ==
    /\ inst[i] # Dead
    /\ SetWorld(DropInstance(inst[i], World))
    /\ inst' = [inst EXCEPT ![i] = Dead]
    /\ UNCHANGED outOpened
    /\ last' = [NoOp EXCEPT !.op = "drop", !.id = i]

(* if let Output::Memory(c) = out { Input::Memory(Cursor::new(c.into_inner())) }:
   the bytes an Output collected in memory are handed to an Input *)
CallReload(i) ==
    /\ inst[i].type = "Output"
    /\ inst[i].variant = "Memory"
    /\ inst' = [inst EXCEPT ![i] =
                   [Memory("Input", CursorNew(inst[i].cur.data))
                       EXCEPT !.origin = "reload", !.wlog = inst[i].wlog]]
    /\ UNCHANGED <<fs, handles, stdin, stdout, outOpened>>
    /\ last' = [NoOp EXCEPT !.op = "reload", !.id = i]

InitialFile(p) ==
    [exists |-> TRUE, data |-> <<1, 2>>, r |-> TRUE, w |-> DirWritable(p)]

\* "-" names no file, "ro" a read-only one, "a" a file or nothing
InitFs == {[p \in FilePaths |-> CASE p = "-" -> NoFile
                                  [] p = "ro" -> InitialFile(p)
                                  [] p = "a" -> f] :
              f \in {NoFile, InitialFile("a")}}

StdTable == (StdinFd :> StdHandle(TRUE)) @@ (StdoutFd :> StdHandle(FALSE))

Init ==
    /\ inst = [i \in Ids |-> Dead]
    /\ fs \in InitFs
    /\ handles = StdTable
    /\ stdin = <<1, 2>>
    /\ stdout = [pending |-> <<>>, committed |-> <<>>]
    /\ outOpened = {}
    /\ last = NoOp

Next ==
    \E i \in One :
        \/ CallInputStdin(i)
        \/ CallInputMemory(i)
        \/ \E p \in Paths : CallInputFile(i, p)
        \/ \E a \in Args : CallInputFromArg(i, a)
        \/ \E b \in SmallBufs : CallInputPreloaded(i, b)
        \/ CallOutputStdout(i)
        \/ CallOutputMemory(i)
        \/ \E p \in Paths : CallOutputFile(i, p)
        \/ \E a \in Args : CallOutputFromArg(i, a)
        \/ CallInputOutputStdio(i)
        \/ CallInputOutputMemory(i)
        \/ \E p \in Paths : CallInputOutputFile(i, p)
        \/ \E a \in Args : CallInputOutputFromArg(i, a)
        \/ \E b \in SmallBufs : CallInputOutputPreloaded(i, b)
        \/ \E cap \in Caps : CallInputRead(i, cap)
        \/ \E buf \in SmallBufs : CallOutputWrite(i, buf)
        \/ CallOutputFlush(i)
        \/ \E cap \in Caps : CallInputOutputRead(i, cap)
        \/ \E buf \in SmallBufs : CallInputOutputWrite(i, buf)
        \/ CallInputOutputFlush(i)
        \/ CallDrop(i)

Spec == Init /\ [][Next]_vars

(* The in-memory variants alone, one instance at a time, over every vector
   of at most MaxLen bytes *)
InitMem ==
    /\ inst = [i \in Ids |-> Dead]
    /\ fs = [p \in FilePaths |-> NoFile]
    /\ handles = StdTable
    /\ stdin = <<>>
    /\ stdout = [pending |-> <<>>, committed |-> <<>>]
    /\ outOpened = {}
    /\ last = NoOp

NextMem ==
    \/ CallInputMemory(1)
    \/ \E b \in SeqsUpTo(MaxLen) : CallInputPreloaded(1, b)
    \/ CallOutputMemory(1)
    \/ CallInputOutputMemory(1)
    \/ \E b \in SeqsUpTo(MaxLen) : CallInputOutputPreloaded(1, b)
    \/ \E cap \in Caps : CallInputRead(1, cap)
    \/ \E buf \in WriteBufs : CallOutputWrite(1, buf)
    \/ CallOutputFlush(1)
    \/ \E cap \in Caps : CallInputOutputRead(1, cap)
    \/ \E buf \in WriteBufs : CallInputOutputWrite(1, buf)
    \/ CallInputOutputFlush(1)
    \/ CallReload(1)
    \/ CallDrop(1)

SpecMem == InitMem /\ [][NextMem]_vars

(* Two instances alive at once over the same files and streams: the
   constructors that can open a file, the methods, and destruction *)
NextOwn ==
    \E i \in Ids :
        \/ \E p \in Paths : CallInputFile(i, p)
        \/ \E p \in Paths : CallOutputFile(i, p)
        \/ \E p \in Paths : CallInputOutputFile(i, p)
        \/ \E a \in Args : CallInputOutputFromArg(i, a)
        \/ CallInputRead(i, 1)
        \/ CallOutputWrite(i, <<3>>)
        \/ CallOutputFlush(i)
        \/ CallInputOutputRead(i, 1)
        \/ CallInputOutputWrite(i, <<3>>)
        \/ CallInputOutputFlush(i)
        \/ CallDrop(i)

InitOwn ==
    /\ inst = [i \in Ids |-> Dead]
    /\ fs \in {f \in InitFs : ~f["a"].exists}
    /\ handles = StdTable
    /\ stdin = <<>>
    /\ stdout = [pending |-> <<>>, committed |-> <<>>]
    /\ outOpened = {}
    /\ last = NoOp

SpecOwn == InitOwn /\ [][NextOwn]_vars

---------------------------------------------------------------------------
(* Properties.  A step's call is described by last' and is judged against  *)
(* the state it was made in (the unprimed variables).                      *)

FromArgOps == {"Input::from_arg", "Output::from_arg", "InputOutput::from_arg"}
Methods == {"read", "write", "flush"}

\* the file constructor of the type whose from_arg is op
FileCtor(op, path, w) ==
    CASE op = "Input::from_arg" -> InputFile(path, w)
      [] op = "Output::from_arg" -> OutputFile(path, w)
      [] op = "InputOutput::from_arg" -> InputOutputFile(path, w)

TypeOfOp(op) ==
    CASE op = "Input::from_arg" -> "Input"
      [] op = "Output::from_arg" -> "Output"
      [] op = "InputOutput::from_arg" -> "InputOutput"

NoFileAt(p) == p \notin FilePaths \/ ~fs[p].exists
Creatable(p) == p \in FilePaths /\ DirWritable(p)

(* C1: from_arg(None) and from_arg(Some("-")) return Ok with the Standard
   variant of the type and leave the file system and the descriptor table
   alone; from_arg(Some(s)) for any other s, the empty string included, does
   what the type's file constructor does on s: the same result, the same
   effect on the world, the File variant on success and the open error and no
   instance on failure, never a Standard or Memory variant. *)
C1_FromArgSelects ==
    [][last'.op \in FromArgOps =>
          LET a == last'.arg
              i == last'.id
          IN IF ~a.some \/ a.s = "-"
             THEN /\ last'.ok
                  /\ inst'[i].variant = "Standard"
                  /\ inst'[i].type = TypeOfOp(last'.op)
                  /\ fs' = fs
                  /\ handles' = handles
             ELSE LET o == FileCtor(last'.op, a.s, World)
                  IN /\ last'.ok = o.ok
                     /\ last'.err = o.err
                     /\ fs' = o.w.fs
                     /\ handles' = o.w.handles
                     /\ inst'[i].variant \notin {"Standard", "Memory"}
                     /\ o.ok => /\ inst'[i].variant = "File"
                                /\ inst'[i].type = TypeOfOp(last'.op)
                                /\ inst'[i].file = o.self.file
                                /\ inst'[i].file \in DOMAIN handles'
                     /\ ~o.ok => /\ inst'[i] = Dead
                                 /\ last'.err \in {"NotFound", "PermissionDenied"}
    ]_vars

\* from_arg(Some("")) went to the file constructor and failed as the open did
C1_Witness ==
    /\ last.op \in FromArgOps
    /\ last.arg = Some("")
    /\ ~last.ok
    /\ last.err = "NotFound"
    /\ inst[last.id] = Dead

(* C2: Output::file(path) creates the file when it is absent (where a file
   can be created), and a second successful call on the same path does not
   fail and leaves the file with length 0, whatever was written before. *)
C2_SecondCallTruncates ==
    [][last'.op = "Output::file" =>
          LET p == last'.arg.s
          IN /\ (Creatable(p) /\ ~fs[p].exists) => (last'.ok /\ fs'[p].exists)
             /\ p \in outOpened => (last'.ok /\ Len(fs'[p].data) = 0)
    ]_vars

(* C3 as stated: InputOutput::file(path), and InputOutput::from_arg(Some(path))
   for path other than "-", with no file at path returns a not-found error,
   yields no instance and leaves the file system unchanged, whereas
   Output::file(path) in the same situation succeeds and creates the file. *)
C3_Original ==
    [][LET p == last'.arg.s
           i == last'.id
       IN /\ (/\ \/ last'.op = "InputOutput::file"
                 \/ last'.op = "InputOutput::from_arg" /\ last'.arg.some /\ p # "-"
              /\ NoFileAt(p))
             => /\ ~last'.ok
                /\ last'.err = "NotFound"
                /\ inst'[i] = Dead
                /\ fs' = fs
                /\ handles' = handles
          /\ (last'.op = "Output::file" /\ NoFileAt(p))
             => /\ last'.ok
                /\ p \in FilePaths
                /\ fs'[p].exists
    ]_vars

(* C3 amended: the InputOutput half as stated; Output::file(path) with no
   file at path succeeds and creates an empty file exactly when a file can be
   created at path (a non-empty path in a writable directory), and otherwise
   fails, yields no instance and creates nothing. *)
C3_MissingFile ==
    [][LET p == last'.arg.s
           i == last'.id
       IN /\ (/\ \/ last'.op = "InputOutput::file"
                 \/ last'.op = "InputOutput::from_arg" /\ last'.arg.some /\ p # "-"
              /\ NoFileAt(p))
             => /\ ~last'.ok
                /\ last'.err = "NotFound"
                /\ inst'[i] = Dead
                /\ fs' = fs
                /\ handles' = handles
          /\ (last'.op = "Output::file" /\ NoFileAt(p) /\ Creatable(p))
             => /\ last'.ok
                /\ inst'[i].variant = "File"
                /\ fs'[p].exists
                /\ fs'[p].data = <<>>
          /\ (last'.op = "Output::file" /\ NoFileAt(p) /\ ~Creatable(p))
             => /\ ~last'.ok
                /\ inst'[i] = Dead
                /\ fs' = fs
                /\ handles' = handles
    ]_vars

\* InputOutput::file("a") failed with NotFound and "a" is still absent
C3_Witness ==
    /\ last.op = "InputOutput::file"
    /\ last.arg = Some("a")
    /\ ~last.ok
    /\ last.err = "NotFound"
    /\ ~fs["a"].exists
    /\ inst[last.id] = Dead

IsMem(x, type, origin) ==
    x.type = type /\ x.variant = "Memory" /\ x.origin = origin

(* C4: an InputOutput made by memory() has one position for reads and
   writes: it stands at the number of bytes written, which is the end of the
   data, so every read returns 0 bytes and no written byte is ever read
   back. *)
C4_SharedCursor ==
    \A i \in Ids :
        IsMem(inst[i], "InputOutput", "memory") =>
            /\ inst[i].cur.pos = Len(inst[i].wlog)
            /\ inst[i].cur.pos = Len(inst[i].cur.data)
            /\ inst[i].rlog = <<>>
            /\ (last.op = "read" /\ last.id = i) => (last.ok /\ last.n = 0)

\* [1,2,3] was written from position 0 and a read of capacity > 0 returned 0
C4_Witness ==
    /\ IsMem(inst[1], "InputOutput", "memory")
    /\ inst[1].cur.data = <<1, 2, 3>>
    /\ last.op = "read"
    /\ last.cap > 0
    /\ last.n = 0

(* C5 as stated: an Output made by memory() holds exactly the bytes written
   to it, and an Input over a cursor loaded with those bytes has returned
   exactly them once a read returns 0. *)
C5_Original ==
    \A i \in Ids :
        /\ IsMem(inst[i], "Output", "memory") => inst[i].cur.data = inst[i].wlog
        /\ (IsMem(inst[i], "Input", "reload") /\ last.op = "read" /\ last.id = i
                /\ last.n = 0)
           => inst[i].rlog = inst[i].wlog

(* C5 amended: an Output made by memory() holds exactly the bytes written
   to it; an Input over a cursor loaded with those bytes returns them in
   order (what it has returned is always a prefix of them) and has returned
   exactly them once a read into a buffer of capacity > 0 returns 0. *)
C5_RoundTrip ==
    \A i \in Ids :
        /\ IsMem(inst[i], "Output", "memory") => inst[i].cur.data = inst[i].wlog
        /\ IsMem(inst[i], "Input", "reload") =>
              /\ IsPrefix(inst[i].rlog, inst[i].wlog)
              /\ inst[i].cur.pos = Len(inst[i].rlog)
              /\ (last.op = "read" /\ last.id = i /\ last.cap > 0 /\ last.n = 0)
                 => inst[i].rlog = inst[i].wlog

\* three bytes written, handed over and read back to the end
C5_Witness ==
    /\ IsMem(inst[1], "Input", "reload")
    /\ inst[1].wlog = <<1, 2, 3>>
    /\ inst[1].rlog = <<1, 2, 3>>
    /\ last.op = "read"
    /\ last.cap > 0
    /\ last.n = 0

\* the bytes between the position and the end of a cursor's data
Remaining(cur) == Len(cur.data) - Min(cur.pos, Len(cur.data))

(* C6 as stated: a read of capacity N on a Memory variant with r bytes
   remaining returns Ok(min(N, r)), those very bytes, never more than N,
   exactly r when r < N, 0 only when r = 0, and advances the position by the
   count. *)
C6_Original ==
    [][(last'.op = "read" /\ inst[last'.id].variant = "Memory") =>
          LET c == inst[last'.id].cur
              r == Remaining(c)
              N == last'.cap
          IN /\ last'.ok
             /\ last'.n = Min(N, r)
             /\ last'.n <= N
             /\ r < N => last'.n = r
             /\ last'.n = 0 => r = 0
             /\ last'.out = SubSeq(c.data, c.pos + 1, c.pos + last'.n)
             /\ inst'[last'.id].cur = [c EXCEPT !.pos = c.pos + last'.n]
    ]_vars

(* C6 amended: as stated, except that the read returns 0 only when r = 0 or
   N = 0. *)
C6_MemoryRead ==
    [][(last'.op = "read" /\ inst[last'.id].variant = "Memory") =>
          LET c == inst[last'.id].cur
              r == Remaining(c)
              N == last'.cap
          IN /\ last'.ok
             /\ last'.n = Min(N, r)
             /\ last'.n <= N
             /\ r < N => last'.n = r
             /\ last'.n = 0 => (r = 0 \/ N = 0)
             /\ last'.out = SubSeq(c.data, c.pos + 1, c.pos + last'.n)
             /\ inst'[last'.id].cur = [c EXCEPT !.pos = c.pos + last'.n]
    ]_vars

\* a read of capacity 2 with one byte remaining returned that one byte
C6_Witness ==
    /\ last.op = "read"
    /\ inst[last.id].variant = "Memory"
    /\ last.cap = 2
    /\ last.n = 1
    /\ inst[last.id].cur.pos = Len(inst[last.id].cur.data)

(* C7: flush on a Memory variant of Output or InputOutput returns Ok and
   leaves the cursor's bytes, their length and the position as they were. *)
C7_FlushMemory ==
    [][(last'.op = "flush" /\ inst[last'.id].variant = "Memory") =>
          /\ last'.ok
          /\ inst'[last'.id].cur = inst[last'.id].cur
          /\ inst'[last'.id].variant = "Memory"
    ]_vars

\* a flush in the middle of a cursor that was read from and written to
C7_Witness ==
    /\ last.op = "flush"
    /\ last.ok
    /\ inst[last.id].type = "InputOutput"
    /\ inst[last.id].variant = "Memory"
    /\ inst[last.id].rlog # <<>>
    /\ inst[last.id].wlog # <<>>
    /\ inst[last.id].cur.pos < Len(inst[last.id].cur.data)

(* C8: read, write and flush, whether they succeed or fail, leave every
   instance with the type and the variant it had. *)
C8_VariantFixed ==
    [][last'.op \in Methods =>
          \A i \in Ids : /\ inst'[i].variant = inst[i].variant
                         /\ inst'[i].type = inst[i].type
                         /\ inst'[i].origin = inst[i].origin
    ]_vars

\* a read on a File variant returned an error and the instance is still File
C8_Witness ==
    /\ last.op = "read"
    /\ ~last.ok
    /\ inst[last.id].type = "Input"
    /\ inst[last.id].variant = "File"

(* C9: on an InputOutput Standard instance read takes its bytes from the
   front of stdin and leaves stdout as it was; write appends to stdout and
   flush commits stdout, and both leave stdin as it was; none touches a file
   or the descriptor table. *)
C9_StandardRouting ==
    [][(/\ last'.op \in Methods
        /\ inst[last'.id].type = "InputOutput"
        /\ inst[last'.id].variant = "Standard") =>
          LET self == inst[last'.id]
              n == last'.n
          IN /\ self.sin = StdinFd
             /\ self.sout = StdoutFd
             /\ fs' = fs
             /\ handles' = handles
             /\ last'.op = "read" =>
                   /\ stdout' = stdout
                   /\ last'.out = Take(stdin, n)
                   /\ stdin' = DropN(stdin, n)
             /\ last'.op = "write" =>
                   /\ stdin' = stdin
                   /\ stdout'.pending = stdout.pending \o Take(last'.buf, n)
                   /\ stdout'.committed = stdout.committed
             /\ last'.op = "flush" =>
                   /\ stdin' = stdin
                   /\ last'.ok => stdout' = [pending |-> <<>>,
                                              committed |-> stdout.committed
                                                            \o stdout.pending]
                   /\ ~last'.ok => stdout' = stdout
    ]_vars

\* a read took bytes from stdin while written bytes waited in stdout
C9_Witness ==
    /\ last.op = "read"
    /\ inst[last.id].type = "InputOutput"
    /\ inst[last.id].variant = "Standard"
    /\ last.n > 0
    /\ stdout.pending # <<>>

(* C10: the standard streams stay open; every other open descriptor is held
   by exactly one live File instance, and every live File instance holds an
   open one: a failed constructor leaves none behind, a destroyed instance
   releases its own, whatever its methods returned, and destroying a
   Standard instance closes nothing. *)
C10_Ownership ==
    /\ StdFds \subseteq DOMAIN handles
    /\ \A fd \in (DOMAIN handles) \ StdFds :
          Cardinality({i \in Ids : inst[i].variant = "File" /\ inst[i].file = fd}) = 1
    /\ \A i \in Ids :
          IF inst[i].variant = "File"
          THEN inst[i].file \in (DOMAIN handles) \ StdFds
          ELSE inst[i].file = NoFd
    /\ last.op = "drop" => inst[last.id] = Dead
    /\ (last.op \in {"Input::file", "Output::file", "InputOutput::file"} \cup FromArgOps
            /\ ~last.ok) => inst[last.id] = Dead

\* an instance was destroyed and released its file while another holds its own
C10_Witness ==
    /\ last.op = "drop"
    /\ inst[last.id] = Dead
    /\ \E j \in Ids : inst[j].variant = "File" /\ inst[j].file = 3
    /\ DOMAIN handles = StdFds \cup {3}

===========================================================================
